---- MODULE Spec2Model ----
(***************************************************************************)
(* State-machine model of the AgenKampus orchestrators:                    *)
(*   RemoteMCPOrchestrator   (agent/orchestrator_remote_mcp.py)  "remote"  *)
(*   ProperMCPOrchestrator   (agent/orchestrator_proper_mcp.py)  "proper"  *)
(*   AgenKampusOrchestrator  (agent/orchestrator.py)             "direct"  *)
(* and of ToolRetriever.retrieve (rag/tool_retriever.py).                  *)
(*                                                                         *)
(* Python dicts are sequences of [k, v] records in insertion order (the    *)
(* order in which .items() and .values() iterate).  Every await on I/O is  *)
(* a suspension point: the code between two awaits is one atomic action.   *)
(* Transports and sessions are identified by handles 1, 2, ... handed out  *)
(* by the environment; the session built on a transport has its handle.    *)
(***************************************************************************)
EXTENDS Integers, Sequences, FiniteSets, TLC

\* ------------------------------------------------------------------ bounds
MaxServers == 2
MaxHandles == 2
MaxParams == 2
MaxIndexed == 3
MaxCatalog == 2
MaxParts == 3
MaxLines == 2

\* -------------------------------------------------------- program constants
AGENT_MAX_ITERATIONS == 5
RAG_TOP_K == 3

\* ------------------------------------------------------------ the universe
T1 == "get_waktu_saat_ini"
T2 == "get_dosen_pembimbing"
T3 == "list_all_students"

ToolNames == {T1, T2, T3}
ServerNames == {"utilitas", "akademik"}
Tasks == {1, 2}

\* what each server of the repository answers to list_tools, in the order
\* of its @mcp.tool() definitions, on the three names the model follows
\* (kalkulator_sederhana of mcp_utilitas and get_mata_kuliah_mahasiswa of
\* mcp_akademik are left out): no name is shared by the two servers
Advertises(server_name) ==
    IF server_name = "utilitas" THEN <<T1>> ELSE <<T2, T3>>

\* names the decision model may put in its tool-call requests; within one
\* query it asks for one of them (the rounds of a query do not depend on
\* each other), or answers, or fails
ReqNames == {T1, T2}

\* the tool descriptions file the retriever loaded
Catalog == <<T1, T2, T3>>

\* what collection.query(n_results=top_k) may answer for a query
IndexResults ==
    {<<[id |-> T1, distance |-> 0], [id |-> T2, distance |-> 10], [id |-> T3, distance |-> 12]>>,
     <<[id |-> T2, distance |-> 5], [id |-> T1, distance |-> 9]>>,
     <<[id |-> "removed_tool", distance |-> 3], [id |-> T3, distance |-> 7]>>,
     <<[id |-> T3, distance |-> 15], [id |-> T2, distance |-> 16]>>}

\* retriever.retrieve(user_input, top_k) either answers or raises
RetrievalOutcomes ==
    {[ok |-> TRUE, results |-> r] : r \in IndexResults}
        \cup {[ok |-> FALSE, results |-> <<>>]}

\* ------------------------------------------------------------ Python dicts
DictKeys(d) == {d[i].k : i \in 1..Len(d)}

DictHas(d, key) == \E i \in 1..Len(d) : d[i].k = key

DictGet(d, key) == d[CHOOSE i \in 1..Len(d) : d[i].k = key].v

DictSet(d, key, val) ==
    IF DictHas(d, key)
    THEN [i \in 1..Len(d) |-> IF d[i].k = key THEN [k |-> key, v |-> val] ELSE d[i]]
    ELSE Append(d, [k |-> key, v |-> val])

DictValues(d) == [i \in 1..Len(d) |-> d[i].v]

SeqRange(s) == {s[i] : i \in 1..Len(s)}

\* -------------------------------------------------------------- the state
VARIABLES
    variant,             \* which orchestrator class this instance is
    server_configs,      \* self.server_configs / the servers dict: [name, tools]
    max_iterations,      \* max_iterations handed to AgentExecutor
    inputs,              \* what the callers and the services of this run may do
    transport_contexts,  \* RemoteMCPOrchestrator.transport_contexts
    session_contexts,    \* RemoteMCPOrchestrator.session_contexts
    sessions,            \* RemoteMCPOrchestrator.sessions
    mcp_sessions,        \* ProperMCPOrchestrator.mcp_sessions
    all_tools,           \* self.all_tools: name -> [name, sess, server]
    task,                \* per caller: position and locals of query()/connect
    nextH,               \* next handle the environment hands out
    owner,               \* owner[h]: index of the config entry handle h serves
    listed,              \* handles whose tools the current/last connect loop registered
    genStart,            \* first handle handed out since the last disconnect
    anyFail,             \* a connect step has failed since the last disconnect
    dpc,                 \* position of disconnect_mcp_servers
    dk,                  \* index of the dict entry whose close is awaited
    closeLog,            \* close attempts of the current/last disconnect
    discSnap,            \* handles the registry held when disconnect started
    discReturned,        \* disconnect returned and nothing was called since
    prep_call,           \* a call of _prepare_tool_arguments: arguments and result
    retr_call,           \* a call of ToolRetriever.retrieve: arguments and result
    index_call,          \* ToolRetriever constructions over one persisted store
    text_call,           \* a tool wrapper turning a call_tool response into text
    tool_call,           \* kampus.db and the tool the servers ran last on it
    interactive          \* a driver's interactive loop: position, stdin, locals

registry == <<transport_contexts, session_contexts, sessions, mcp_sessions, all_tools>>
environment == <<nextH, owner, listed, genStart, anyFail>>
disconnecting == <<dpc, dk, closeLog, discSnap, discReturned>>
configuration == <<variant, server_configs, max_iterations, inputs>>
calls == <<prep_call, retr_call, index_call, text_call, tool_call, interactive>>
vars == <<configuration, registry, task, environment, disconnecting, calls>>

NoResult == [kind |-> "none", success |-> "na", answer |-> "na", steps |-> <<>>]

\* the handle of any session that belongs to a connection made before the
\* last disconnect (the environment numbers handles from 1 after it)
StaleSession == -1

\* the session.call_tool(name, payload) in flight
NoCall == [sess |-> 0, name |-> "none"]

IdleTask == [pc |-> "idle", op |-> "none", ci |-> 0, h |-> 0, rag |-> FALSE,
             early |-> FALSE, failed |-> FALSE, ask |-> "none", selected |-> <<>>,
             retr |-> "none", retrieved |-> <<>>, iter |-> 0, cur |-> NoCall,
             steps |-> <<>>, invoked |-> {}, res |-> NoResult]

\* the name field of a config entry that has none
NoName == "<absent>"

\* server_cfg.get("name", "unnamed")
ServerName(server_cfg) ==
    IF server_cfg.name = NoName THEN "unnamed" ELSE server_cfg.name

\* the entries a servers file may hold: the two servers of the repository
\* under their names, and an entry without a name for the akademik server
ConfigEntries ==
    {[name |-> n, tools |-> Advertises(n)] : n \in ServerNames}
        \cup {[name |-> NoName, tools |-> Advertises("akademik")]}

\* _load_server_configs: a non-empty list of service entries; entries may
\* share a name or have none
RemoteConfigs ==
    UNION {[1..n -> ConfigEntries] : n \in 1..MaxServers}

\* the servers dict literal of ProperMCPOrchestrator.connect_mcp_servers
ProperConfigs ==
    {<<[name |-> "utilitas", tools |-> Advertises("utilitas")],
       [name |-> "akademik", tools |-> Advertises("akademik")]>>}

\* _load_all_tools: each of the two import blocks may fail as a whole
DirectToolTables ==
    {<<>>,
     <<[k |-> T1, v |-> [name |-> T1, sess |-> 0, server |-> 1]]>>,
     <<[k |-> T2, v |-> [name |-> T2, sess |-> 0, server |-> 2]],
       [k |-> T3, v |-> [name |-> T3, sess |-> 0, server |-> 2]]>>,
     <<[k |-> T1, v |-> [name |-> T1, sess |-> 0, server |-> 1]],
       [k |-> T2, v |-> [name |-> T2, sess |-> 0, server |-> 2]],
       [k |-> T3, v |-> [name |-> T3, sess |-> 0, server |-> 2]]>>}

InitCommon ==
    /\ transport_contexts = <<>>
    /\ session_contexts = <<>>
    /\ sessions = <<>>
    /\ mcp_sessions = <<>>
    /\ task = [q \in Tasks |-> IdleTask]
    /\ nextH = 1
    /\ owner = <<>>
    /\ listed = <<>>
    /\ genStart = 1
    /\ anyFail = FALSE
    /\ dpc = "idle"
    /\ dk = 0
    /\ closeLog = <<>>
    /\ discSnap = [sess |-> {}, trans |-> {}]
    /\ discReturned = FALSE

\* every query text, either value of use_rag, every answer of the index
AnyInputs == [use_rag |-> BOOLEAN, asks |-> ReqNames, retrieval |-> RetrievalOutcomes]

InitRemote ==
    /\ variant = "remote"
    /\ server_configs \in RemoteConfigs
    /\ max_iterations = AGENT_MAX_ITERATIONS
    /\ inputs = AnyInputs
    /\ all_tools = <<>>

InitProper ==
    /\ variant = "proper"
    /\ server_configs \in ProperConfigs
    /\ max_iterations = AGENT_MAX_ITERATIONS
    /\ inputs = AnyInputs
    /\ all_tools = <<>>

InitDirect ==
    /\ variant = "direct"
    /\ server_configs = <<>>
    /\ max_iterations = AGENT_MAX_ITERATIONS
    /\ inputs = AnyInputs
    /\ all_tools \in DirectToolTables

\* no call of _prepare_tool_arguments or of retrieve is being looked at
NoPrepareCall == [pc |-> "none", arguments |-> <<>>, required_props |-> <<>>,
                  properties |-> <<>>, payload |-> <<>>]

NoRetrieveCall == [pc |-> "none", index |-> <<>>, top_k |-> 0, score_threshold |-> 0,
                   retrieved_tools |-> <<>>]

NoIndexCall == [pc |-> "none", file |-> <<>>, tools |-> <<>>, collection |-> <<>>,
                before |-> <<>>, unchanged |-> FALSE, constructed |-> 0]

\* no tool wrapper, tool server or interactive loop is being looked at
NotCalled == [pc |-> "none"]

NoCalls ==
    /\ prep_call = NoPrepareCall
    /\ retr_call = NoRetrieveCall
    /\ index_call = NoIndexCall
    /\ text_call = NotCalled
    /\ tool_call = NotCalled
    /\ interactive = NotCalled

Init == InitCommon /\ NoCalls /\ (InitRemote \/ InitProper \/ InitDirect)

\* ------------------------------------------------- ToolRetriever.retrieve
\* Distances are in tenths (d = 14 is the distance 1.4) and similarity
\* scores and thresholds are in 1/200: 1 - d^2/2 is (200 - d*d)/200 exactly.
\* a conversion without the halving: 1 - d^2
SimilarityUnhalved(distance) == 200 - 2 * distance * distance

Similarity(distance) == 200 - distance * distance

\* a filter that lets every score pass
BelowThresholdNever(similarity, score_threshold) == FALSE

\* "if similarity < score_threshold: continue"
BelowThreshold(similarity, score_threshold) == similarity < score_threshold

\* a lookup that finds an entry for every id
CatalogHasAnything(catalog, tool_name) == TRUE

\* t for t in self.tools if t['name'] == tool_name, or None
CatalogHas(catalog, tool_name) == \E i \in 1..Len(catalog) : catalog[i] = tool_name

RECURSIVE RetrieveLoop(_, _, _, _, _)
RetrieveLoop(results, catalog, score_threshold, idx, retrieved_tools) ==
    IF idx > Len(results) THEN retrieved_tools
    ELSE LET tool_name == results[idx].id
             similarity == Similarity(results[idx].distance)
         IN IF BelowThreshold(similarity, score_threshold)
            THEN RetrieveLoop(results, catalog, score_threshold, idx + 1, retrieved_tools)
            ELSE IF CatalogHas(catalog, tool_name)
            THEN RetrieveLoop(results, catalog, score_threshold, idx + 1,
                     Append(retrieved_tools,
                            [name |-> tool_name,
                             similarity_score |-> similarity,
                             retrieval_rank |-> idx]))
            ELSE RetrieveLoop(results, catalog, score_threshold, idx + 1, retrieved_tools)

Retrieve(results, catalog, score_threshold) ==
    RetrieveLoop(results, catalog, score_threshold, 1, <<>>)

\* a query that ignores n_results
CollectionQueryUnbounded(index, n_results) == index

\* self.collection.query(n_results=top_k): the top_k nearest entries of the
\* index, nearest first
CollectionQuery(index, n_results) ==
    SubSeq(index, 1, IF n_results < Len(index) THEN n_results ELSE Len(index))

\* ------------------------------------------- _prepare_tool_arguments
\* Python values: a dict is its items in insertion order, a string or a
\* number is its text, None is None
PyNone == [kind |-> "none", scalar |-> "None", items |-> <<>>]

PyStr(text) == [kind |-> "str", scalar |-> text, items |-> <<>>]

PyInt(text) == [kind |-> "int", scalar |-> text, items |-> <<>>]

PyDict(items) == [kind |-> "dict", scalar |-> "", items |-> items]

\* a lookup that never finds the key
ArgumentsGetNothing(items, key) == PyNone

\* arguments.get(key)
ArgumentsGet(items, key) ==
    IF DictHas(items, key) THEN DictGet(items, key) ELSE PyNone

\* a filter that keeps every key
FilteredKeepAll(items, properties) == items

\* {k: v for k, v in arguments.items() if k in properties}
Filtered(items, properties) ==
    LET Declared(item) == item.k \in SeqRange(properties)
    IN SelectSeq(items, Declared)

\* a binding to the last required property
BindFirstRequiredLast(required_props, value) ==
    IF required_props # <<>>
    THEN <<[k |-> required_props[Len(required_props)], v |-> value]>>
    ELSE <<>>

\* "if required_props: return {required_props[0]: value}" then "return {}"
BindFirstRequired(required_props, value) ==
    IF required_props # <<>>
    THEN <<[k |-> required_props[1], v |-> value]>>
    ELSE <<>>

\* a normalisation that passes the items of a dict through
PrepareToolArgumentsPassThrough(arguments, required_props, properties) ==
    arguments.items

\* RemoteMCPOrchestrator._prepare_tool_arguments; properties is the list of
\* the keys of the schema's properties dict
PrepareToolArguments(arguments, required_props, properties) ==
    LET first == required_props[1] IN
    IF properties = <<>> /\ required_props = <<>> THEN <<>>
    ELSE IF arguments.kind = "dict"
    THEN IF properties = <<>>
         THEN BindFirstRequired(required_props,
                  IF required_props # <<>>
                  THEN ArgumentsGet(arguments.items, first) ELSE PyNone)
         ELSE IF Filtered(arguments.items, properties) # <<>>
         THEN Filtered(arguments.items, properties)
         ELSE BindFirstRequired(required_props,
                  IF required_props # <<>>
                  THEN ArgumentsGet(arguments.items, first) ELSE PyNone)
    ELSE IF arguments.kind = "str"
    THEN BindFirstRequired(required_props, arguments)
    ELSE IF arguments.kind = "none"
    THEN <<>>
    ELSE BindFirstRequired(required_props, arguments)

\* --------------------------------------------------- tool registration
\* a registration that keeps the entry a name already has
RECURSIVE RegisterToolsKeepFirst(_, _, _, _)
RegisterToolsKeepFirst(tools, server, session, mcp_tools) ==
    IF mcp_tools = <<>> THEN tools
    ELSE RegisterToolsKeepFirst(
             IF DictHas(tools, Head(mcp_tools)) THEN tools
             ELSE DictSet(tools, Head(mcp_tools),
                          [name |-> Head(mcp_tools), sess |-> session, server |-> server]),
             server, session, Tail(mcp_tools))

\* all_tools[tool.name] = Tool(..., coroutine bound to (session, tool.name))
RECURSIVE RegisterToolsFromSession(_, _, _, _)
RegisterToolsFromSession(tools, server, session, mcp_tools) ==
    IF mcp_tools = <<>> THEN tools
    ELSE RegisterToolsFromSession(
             DictSet(tools, Head(mcp_tools),
                     [name |-> Head(mcp_tools), sess |-> session, server |-> server]),
             server, session, Tail(mcp_tools))

\* ------------------------------------------------------- query(): the body
ToolNamesOf(tools) == [i \in 1..Len(tools) |-> tools[i].name]

\* a selection that ignores the retrieved names
SelectToolsUnfiltered(tool_names, tools) == DictValues(tools)

\* [self.all_tools[name] for name in tool_names if name in self.all_tools]
SelectTools(tool_names, tools) ==
    LET Registered(n) == DictHas(tools, n)
        hits == SelectSeq(tool_names, Registered)
    IN [i \in 1..Len(hits) |-> DictGet(tools, hits[i])]

\* AgentExecutor(return_intermediate_steps=True) only in AgenKampusOrchestrator
ReturnIntermediateSteps == variant = "direct"

\* result.get("intermediate_steps", [])
ResultSteps(tk) == IF ReturnIntermediateSteps THEN tk.steps ELSE <<>>

Raised(tk) ==
    [tk EXCEPT !.pc = "done",
               !.res = [kind |-> "raise", success |-> "na", answer |-> "na", steps |-> <<>>]]

Returned(tk, success, answer, steps) ==
    [tk EXCEPT !.pc = "done",
               !.res = [kind |-> "return", success |-> success, answer |-> answer,
                        steps |-> steps]]

\* the dictionaries of AgenKampusOrchestrator.query carry no 'success' key
Success(flag) == IF variant = "direct" THEN "absent" ELSE flag

\* a query without RAG that hands the executor no tool
WithoutRagNothing(tk, tools) ==
    [tk EXCEPT !.pc = "decide", !.retr = "skipped", !.selected = <<>>]

\* the else branch of "if use_rag": list(self.all_tools.values())
WithoutRag(tk, tools) ==
    [tk EXCEPT !.pc = "decide", !.retr = "skipped", !.selected = DictValues(tools)]

\* query() from the retrieval step to the creation of the agent executor;
\* r is what the retriever does for this query.  retr tells what became of
\* the retrieval: skipped, answered, or raised
QueryBody(tk0, tools, r) ==
    LET tk == [tk0 EXCEPT !.ci = 0, !.h = 0, !.failed = FALSE] IN
    IF tk.rag /\ ~r.ok THEN Raised([tk EXCEPT !.retr = "raised"])
    ELSE IF tk.rag
    THEN LET retrieved == Retrieve(r.results, Catalog, 0)
             tool_names == [i \in 1..Len(retrieved) |-> retrieved[i].name]
             selected == SelectTools(tool_names, tools)
             tkr == [tk EXCEPT !.retr = "answered", !.retrieved = tool_names]
         IN IF variant = "direct"
            THEN IF retrieved = <<>>
                 THEN Returned(tkr, "absent", "no_tool", <<>>)
                 ELSE [tkr EXCEPT !.pc = "decide", !.selected = selected]
            ELSE [tkr EXCEPT !.pc = "decide",
                             !.selected = IF selected = <<>>
                                          THEN DictValues(tools) ELSE selected]
    ELSE WithoutRag(tk, tools)

\* connect_mcp_servers has returned normally to its caller
ConnectReturned(tk, tools, r) ==
    IF tk.op = "connect" THEN Returned(tk, "na", "na", <<>>)
    ELSE QueryBody(tk, tools, r)

\* the record of the last disconnect is dropped when the next call starts
CallAfterDisconnect ==
    /\ discReturned' = FALSE
    /\ closeLog' = <<>>
    /\ discSnap' = [sess |-> {}, trans |-> {}]
    /\ UNCHANGED <<dpc, dk>>

\* after a disconnect the environment numbers the next handles from 1 again
HandlesAfterDisconnect ==
    IF discReturned
    THEN nextH' = 1 /\ owner' = <<>> /\ genStart' = 1
    ELSE UNCHANGED <<nextH, owner, genStart>>

\* who makes a call of the orchestrator: a caller that is not modelled
\* further (a test driver, which may call at any time), or the interactive
\* loop when it stands at the statement that makes the call
CalledBy(position) == interactive.pc \in {"none", position}

\* ------------------------------------- RemoteMCPOrchestrator: connecting
Entry(tk) == server_configs[tk.ci]

Called(q, op, use_rag) == [IdleTask EXCEPT !.op = op, !.rag = use_rag]

\* a query, with the tool its text makes the decision model ask for
Queries(q) == {[Called(q, "query", use_rag) EXCEPT !.ask = n] :
                  use_rag \in inputs.use_rag, n \in inputs.asks}

\* connect_mcp_servers without its early return
AlreadyConnectedIgnored == FALSE

\* "if self.sessions: return  # Already connected"
AlreadyConnected == sessions # <<>>

\* connect_mcp_servers up to its first await: the early return, or the
\* transport of the first configured service is being opened
RemoteConnectEnter(q, tk) ==
    IF AlreadyConnected
    THEN /\ \E r \in inputs.retrieval :
               task' = [task EXCEPT ![q] =
                           ConnectReturned([tk EXCEPT !.early = TRUE], all_tools, r)]
         /\ UNCHANGED listed
    ELSE /\ task' = [task EXCEPT ![q] = [tk EXCEPT !.pc = "open", !.ci = 1]]
         /\ listed' = <<>>

\* await orchestrator.query(user_input, use_rag)
RemoteQueryStart(q) ==
    /\ variant = "remote"
    /\ CalledBy("query")
    /\ task[q].pc = "idle"
    /\ dpc = "idle"
    /\ \E tk \in Queries(q) : RemoteConnectEnter(q, tk)
    /\ CallAfterDisconnect
    /\ HandlesAfterDisconnect
    /\ UNCHANGED <<configuration, calls, registry, anyFail>>

\* await self.connect_mcp_servers() called by a driver (run_interactive)
RemoteConnectCall(q) ==
    /\ variant = "remote"
    /\ CalledBy("connect")
    /\ task[q].pc = "idle"
    /\ dpc = "idle"
    /\ RemoteConnectEnter(q, Called(q, "connect", FALSE))
    /\ CallAfterDisconnect
    /\ HandlesAfterDisconnect
    /\ UNCHANGED <<configuration, calls, registry, anyFail>>

\* the except clause of the loop prints and re-raises: connect_mcp_servers
\* raises, and so does a query() that was connecting on demand
RemoteConnectFails(q) ==
    /\ task' = [task EXCEPT ![q] = Raised([task[q] EXCEPT !.failed = TRUE])]
    /\ anyFail' = TRUE

\* ctx.__aenter__() of sse_client / stdio_client finishes
RemoteOpenDone(q) ==
    /\ variant = "remote"
    /\ task[q].pc = "open"
    /\ \/ /\ nextH <= MaxHandles
          /\ transport_contexts' =
                 DictSet(transport_contexts, ServerName(Entry(task[q])), nextH)
          /\ nextH' = nextH + 1
          /\ owner' = Append(owner, task[q].ci)
          /\ task' = [task EXCEPT ![q] = [task[q] EXCEPT !.pc = "sess", !.h = nextH]]
          /\ UNCHANGED anyFail
       \/ /\ RemoteConnectFails(q)
          /\ UNCHANGED <<transport_contexts, nextH, owner>>
    /\ UNCHANGED <<configuration, calls, session_contexts, sessions, mcp_sessions, all_tools, listed, genStart, disconnecting>>

\* session_ctx.__aenter__() finishes
RemoteSessionDone(q) ==
    /\ variant = "remote"
    /\ task[q].pc = "sess"
    /\ \/ /\ session_contexts' =
                 DictSet(session_contexts, ServerName(Entry(task[q])), task[q].h)
          /\ sessions' = DictSet(sessions, ServerName(Entry(task[q])), task[q].h)
          /\ task' = [task EXCEPT ![q] = [task[q] EXCEPT !.pc = "init"]]
          /\ UNCHANGED anyFail
       \/ /\ RemoteConnectFails(q)
          /\ UNCHANGED <<session_contexts, sessions>>
    /\ UNCHANGED <<configuration, calls, transport_contexts, mcp_sessions, all_tools,
                   nextH, owner, listed, genStart, disconnecting>>

\* session.initialize() finishes
RemoteInitializeDone(q) ==
    /\ variant = "remote"
    /\ task[q].pc = "init"
    /\ \/ /\ task' = [task EXCEPT ![q] = [task[q] EXCEPT !.pc = "list"]]
          /\ UNCHANGED anyFail
       \/ RemoteConnectFails(q)
    /\ UNCHANGED <<configuration, calls, registry, nextH, owner, listed,
                   genStart, disconnecting>>

\* session.list_tools() finishes; the tools are registered and the loop
\* goes on to the next configured service or connect_mcp_servers returns
RemoteListToolsDone(q) ==
    /\ variant = "remote"
    /\ task[q].pc = "list"
    /\ \/ /\ all_tools' = RegisterToolsFromSession(all_tools, task[q].ci, task[q].h,
                                                   Entry(task[q]).tools)
          /\ listed' = Append(listed, task[q].h)
          /\ IF task[q].ci < Len(server_configs)
             THEN task' = [task EXCEPT ![q] =
                              [task[q] EXCEPT !.pc = "open", !.ci = @ + 1, !.h = 0]]
             ELSE \E r \in inputs.retrieval :
                      task' = [task EXCEPT ![q] = ConnectReturned(task[q], all_tools', r)]
          /\ UNCHANGED anyFail
       \/ /\ RemoteConnectFails(q)
          /\ UNCHANGED <<all_tools, listed>>
    /\ UNCHANGED <<configuration, calls, transport_contexts, session_contexts, sessions,
                   mcp_sessions, nextH, owner, genStart,
                   disconnecting>>

\* ------------------------------------- ProperMCPOrchestrator: connecting
\* the for loop goes on to the next entry of servers, or the method returns
ProperNextServer(tk, tools, q) ==
    IF tk.ci < Len(server_configs)
    THEN task' = [task EXCEPT ![q] = [tk EXCEPT !.pc = "open", !.ci = @ + 1, !.h = 0]]
    ELSE \E r \in inputs.retrieval :
             task' = [task EXCEPT ![q] = ConnectReturned(tk, tools, r)]

\* "except Exception as e": the failure is printed and the loop continues
ProperConnectFails(q) ==
    /\ ProperNextServer([task[q] EXCEPT !.failed = TRUE], all_tools, q)
    /\ anyFail' = TRUE

\* query(): "if not self.mcp_sessions: await self.connect_mcp_servers()"
ProperQueryStart(q) ==
    /\ variant = "proper"
    /\ CalledBy("query")
    /\ task[q].pc = "idle"
    /\ dpc = "idle"
    /\ \E tk \in Queries(q) :
          IF mcp_sessions = <<>>
          THEN /\ task' = [task EXCEPT ![q] = [tk EXCEPT !.pc = "open", !.ci = 1]]
               /\ listed' = <<>>
          ELSE /\ \E r \in inputs.retrieval :
                     task' = [task EXCEPT ![q] =
                                 QueryBody([tk EXCEPT !.early = TRUE], all_tools, r)]
               /\ UNCHANGED listed
    /\ CallAfterDisconnect
    /\ HandlesAfterDisconnect
    /\ UNCHANGED <<configuration, calls, registry, anyFail>>

\* await orchestrator.connect_mcp_servers() called by a driver
ProperConnectCall(q) ==
    /\ variant = "proper"
    /\ CalledBy("connect")
    /\ task[q].pc = "idle"
    /\ dpc = "idle"
    /\ task' = [task EXCEPT ![q] =
                   [Called(q, "connect", FALSE) EXCEPT !.pc = "open", !.ci = 1]]
    /\ listed' = <<>>
    /\ CallAfterDisconnect
    /\ HandlesAfterDisconnect
    /\ UNCHANGED <<configuration, calls, registry, anyFail>>

\* await stdio_client(server_params) finishes; ClientSession(read, write)
ProperOpenDone(q) ==
    /\ variant = "proper"
    /\ task[q].pc = "open"
    /\ \/ /\ nextH <= MaxHandles
          /\ nextH' = nextH + 1
          /\ owner' = Append(owner, task[q].ci)
          /\ task' = [task EXCEPT ![q] = [task[q] EXCEPT !.pc = "init", !.h = nextH]]
          /\ UNCHANGED anyFail
       \/ /\ ProperConnectFails(q)
          /\ UNCHANGED <<nextH, owner>>
    /\ UNCHANGED <<configuration, calls, registry, listed, genStart,
                   disconnecting>>

\* await session.initialize() finishes; self.mcp_sessions[server_name] = session
ProperInitializeDone(q) ==
    /\ variant = "proper"
    /\ task[q].pc = "init"
    /\ \/ /\ mcp_sessions' = DictSet(mcp_sessions, Entry(task[q]).name, task[q].h)
          /\ task' = [task EXCEPT ![q] = [task[q] EXCEPT !.pc = "list"]]
          /\ UNCHANGED anyFail
       \/ /\ ProperConnectFails(q)
          /\ UNCHANGED mcp_sessions
    /\ UNCHANGED <<configuration, calls, transport_contexts, session_contexts, sessions,
                   all_tools, nextH, owner, listed, genStart,
                   disconnecting>>

\* await session.list_tools() finishes; every tool is registered
ProperListToolsDone(q) ==
    /\ variant = "proper"
    /\ task[q].pc = "list"
    /\ \/ /\ all_tools' = RegisterToolsFromSession(all_tools, task[q].ci, task[q].h,
                                                   Entry(task[q]).tools)
          /\ listed' = Append(listed, task[q].h)
          /\ ProperNextServer(task[q], all_tools', q)
          /\ UNCHANGED anyFail
       \/ /\ ProperConnectFails(q)
          /\ UNCHANGED <<all_tools, listed>>
    /\ UNCHANGED <<configuration, calls, transport_contexts, session_contexts, sessions,
                   mcp_sessions, nextH, owner, genStart,
                   disconnecting>>

\* ----------------------------------- AgenKampusOrchestrator: query start
DirectQueryStart(q) ==
    /\ variant = "direct"
    /\ CalledBy("query")
    /\ task[q].pc = "idle"
    /\ \E tk \in Queries(q), r \in inputs.retrieval :
          task' = [task EXCEPT ![q] = QueryBody(tk, all_tools, r)]
    /\ UNCHANGED <<configuration, calls, registry, environment, disconnecting>>

\* --------------------------------------------- the agent loop of a query
\* an executor that compares with > and so runs one round too many
AfterRoundOffByOne(tk) ==
    IF tk.iter > max_iterations
    THEN Returned(tk, Success("true"), "stopped", ResultSteps(tk))
    ELSE [tk EXCEPT !.pc = "decide"]

\* AgentExecutor: "while iterations < max_iterations"; when the limit is
\* reached the executor returns its stopped response
AfterRound(tk) ==
    IF tk.iter >= max_iterations
    THEN Returned(tk, Success("true"), "stopped", ResultSteps(tk))
    ELSE [tk EXCEPT !.pc = "decide"]

SelectedHas(tk, n) == \E i \in 1..Len(tk.selected) : tk.selected[i].name = n

SelectedGet(tk, n) ==
    tk.selected[CHOOSE i \in 1..Len(tk.selected) : tk.selected[i].name = n]

\* the decision model answers with a final answer
DecideFinish(q) ==
    /\ task[q].pc = "decide"
    /\ task' = [task EXCEPT ![q] =
                   Returned(task[q], Success("true"), "final", ResultSteps(task[q]))]
    /\ UNCHANGED <<configuration, calls, registry, environment, disconnecting>>

\* the decision step raises; query() catches it and reports the error
DecideError(q) ==
    /\ task[q].pc = "decide"
    /\ task' = [task EXCEPT ![q] = Returned(task[q], Success("false"), "error", <<>>)]
    /\ UNCHANGED <<configuration, calls, registry, environment, disconnecting>>

\* the decision model requests tool n: a tool of the executor's tool list
\* is called, any other name is answered by the executor itself
DecideTool(q) ==
    /\ task[q].pc = "decide"
    /\ LET n == task[q].ask
       IN IF SelectedHas(task[q], n)
          THEN task' = [task EXCEPT ![q] =
                           [task[q] EXCEPT !.pc = "invoke",
                                           !.cur = [sess |-> SelectedGet(task[q], n).sess,
                                                    name |-> SelectedGet(task[q], n).name],
                                           !.invoked = @ \cup {n}]]
          ELSE task' = [task EXCEPT ![q] =
                           AfterRound([task[q] EXCEPT !.steps = Append(@, n),
                                                      !.iter = @ + 1])]
    /\ UNCHANGED <<configuration, calls, registry, environment, disconnecting>>

\* func of a ProperMCPOrchestrator tool is asyncio.run(wrapper(args)), and
\* the executor calls it from query(), inside the running event loop:
\* asyncio.run raises RuntimeError there, the wrapper never runs
ToolCallCanAnswer == variant # "proper"

\* the tool call finishes: its text is the observation of the round, or
\* the exception leaves the executor and query() reports the error
ToolDone(q) ==
    /\ task[q].pc = "invoke"
    /\ \/ /\ ToolCallCanAnswer
          /\ task' = [task EXCEPT ![q] =
                         AfterRound([task[q] EXCEPT !.steps = Append(@, task[q].cur.name),
                                                    !.iter = @ + 1, !.cur = NoCall])]
       \/ task' = [task EXCEPT ![q] =
                      Returned([task[q] EXCEPT !.cur = NoCall], Success("false"), "error", <<>>)]
    /\ UNCHANGED <<configuration, calls, registry, environment, disconnecting>>

\* the caller takes the result (or the exception) of its call
TaskReturn(q) ==
    /\ task[q].pc = "done"
    /\ task' = [task EXCEPT ![q] = IdleTask]
    /\ UNCHANGED <<configuration, calls, registry, environment, disconnecting>>

\* ------------------------------------------------ disconnect_mcp_servers
\* A driver awaits disconnect_mcp_servers in the finally clause that follows
\* its queries: no query of the instance is in progress meanwhile.
NoTaskRunning == \A q \in Tasks : task[q].pc \in {"idle", "done"}

Closes(kind, d) == [i \in 1..Len(d) |-> [kind |-> kind, h |-> d[i].v]]

\* the two loops in the other order
RemoteClosePlanTransportsFirst(session_ctxs, transport_ctxs) ==
    Closes("transport", transport_ctxs) \o Closes("session", session_ctxs)

\* RemoteMCPOrchestrator: the loop over session_contexts.items(), then the
\* loop over transport_contexts.items()
RemoteClosePlan(session_ctxs, transport_ctxs) ==
    Closes("session", session_ctxs) \o Closes("transport", transport_ctxs)

\* ProperMCPOrchestrator: the loop over mcp_sessions.items()
ProperClosePlan(mcp_sess) == Closes("session", mcp_sess)

ClosePlan ==
    IF variant = "remote" THEN RemoteClosePlan(session_contexts, transport_contexts)
    ELSE ProperClosePlan(mcp_sessions)

\* loops without the try/except: the first failing close ends them
NextCloseAborting(ok, k, n) == IF ok /\ k < n THEN k + 1 ELSE 0

\* try: await ctx.__aexit__(None, None, None) / except Exception: print.
\* The position after close k of n has been attempted; 0 ends the loops.
NextClose(ok, k, n) == IF k < n THEN k + 1 ELSE 0

\* the clear() calls that end disconnect_mcp_servers
RemoteClear ==
    /\ session_contexts' = <<>>
    /\ transport_contexts' = <<>>
    /\ sessions' = <<>>
    /\ all_tools' = <<>>
    /\ UNCHANGED mcp_sessions

\* ProperMCPOrchestrator clears mcp_sessions only: all_tools keeps every
\* entry.  The sessions its entries are bound to are from now on sessions of
\* an earlier connection, which the model writes as the handle StaleSession.
ProperClear ==
    /\ mcp_sessions' = <<>>
    /\ all_tools' = [i \in 1..Len(all_tools) |->
                        [all_tools[i] EXCEPT !.v.sess = StaleSession]]
    /\ UNCHANGED <<session_contexts, transport_contexts, sessions>>

DisconnectReturns ==
    /\ IF variant = "remote" THEN RemoteClear ELSE ProperClear
    /\ dpc' = "idle"
    /\ dk' = 0
    /\ discReturned' = TRUE
    /\ genStart' = nextH
    /\ anyFail' = FALSE
    /\ listed' = <<>>

DisconnectGoesOn(k) ==
    /\ dpc' = "closing"
    /\ dk' = k
    /\ discReturned' = FALSE
    /\ UNCHANGED <<registry, genStart, anyFail, listed>>

\* await orchestrator.disconnect_mcp_servers(), up to the first close
DisconnectStart ==
    /\ variant \in {"remote", "proper"}
    /\ CalledBy("finally")
    /\ interactive.pc = "finally" => ~discReturned
    /\ dpc = "idle"
    /\ NoTaskRunning
    /\ closeLog' = <<>>
    /\ discSnap' = [sess |-> {ClosePlan[i].h : i \in {j \in 1..Len(ClosePlan) :
                                                  ClosePlan[j].kind = "session"}},
                    trans |-> {ClosePlan[i].h : i \in {j \in 1..Len(ClosePlan) :
                                                  ClosePlan[j].kind = "transport"}}]
    /\ IF ClosePlan = <<>> THEN DisconnectReturns ELSE DisconnectGoesOn(1)
    /\ UNCHANGED <<configuration, calls, task, nextH, owner>>

\* one __aexit__ finishes, normally or with an exception
CloseDone ==
    /\ dpc = "closing"
    /\ \E ok \in BOOLEAN :
         LET c == ClosePlan[dk]
             nxt == NextClose(ok, dk, Len(ClosePlan))
         IN /\ closeLog' = Append(closeLog, [kind |-> c.kind, h |-> c.h, ok |-> ok])
            /\ IF nxt = 0 THEN DisconnectReturns ELSE DisconnectGoesOn(nxt)
    /\ UNCHANGED <<configuration, calls, task, nextH, owner, discSnap>>

\* ------------------------------------------------------ specifications
Step(q) ==
    \/ RemoteQueryStart(q)
    \/ RemoteConnectCall(q)
    \/ RemoteOpenDone(q)
    \/ RemoteSessionDone(q)
    \/ RemoteInitializeDone(q)
    \/ RemoteListToolsDone(q)
    \/ ProperQueryStart(q)
    \/ ProperConnectCall(q)
    \/ ProperOpenDone(q)
    \/ ProperInitializeDone(q)
    \/ ProperListToolsDone(q)
    \/ DirectQueryStart(q)
    \/ DecideFinish(q)
    \/ DecideError(q)
    \/ DecideTool(q)
    \/ ToolDone(q)
    \/ TaskReturn(q)

\* one caller at a time: the drivers of the repository await each query
Next ==
    \/ Step(1)
    \/ DisconnectStart
    \/ CloseDone

Spec == Init /\ [][Next]_vars

\* Two callers whose query() calls interleave at their awaits, on one
\* RemoteMCPOrchestrator
RemoteStep(q) ==
    \/ RemoteQueryStart(q)
    \/ RemoteConnectCall(q)
    \/ RemoteOpenDone(q)
    \/ RemoteSessionDone(q)
    \/ RemoteInitializeDone(q)
    \/ RemoteListToolsDone(q)
    \/ DecideFinish(q)
    \/ DecideError(q)
    \/ DecideTool(q)
    \/ ToolDone(q)
    \/ TaskReturn(q)

\* AGENT_MAX_ITERATIONS=1 in the environment; the callers ask with RAG for
\* a tool the index finds, or the retriever fails
ConcInputs ==
    [use_rag |-> {TRUE}, asks |-> {T2},
     retrieval |-> {[ok |-> TRUE,
                     results |-> <<[id |-> T2, distance |-> 5], [id |-> T1, distance |-> 9]>>],
                    [ok |-> FALSE, results |-> <<>>]}]

DistinctNames(cfg) ==
    /\ \A i, j \in 1..Len(cfg) : cfg[i].name = cfg[j].name => i = j
    /\ \A i \in 1..Len(cfg) : cfg[i].name # NoName

InitConc ==
    /\ InitCommon
    /\ NoCalls
    /\ variant = "remote"
    /\ server_configs \in {cfg \in RemoteConfigs : DistinctNames(cfg)}
    /\ max_iterations = 1
    /\ inputs = ConcInputs
    /\ all_tools = <<>>

NextConc ==
    \/ \E q \in Tasks : RemoteStep(q)
    \/ DisconnectStart
    \/ CloseDone

SpecConc == InitConc /\ [][NextConc]_vars

\* ------------------------------- _prepare_tool_arguments on its own
\* an orchestrator on which nothing has been called
InitOrchestratorIdle ==
    /\ InitCommon
    /\ variant = "remote"
    /\ server_configs = <<[name |-> "utilitas", tools |-> Advertises("utilitas")]>>
    /\ max_iterations = AGENT_MAX_ITERATIONS
    /\ inputs = AnyInputs
    /\ all_tools = <<>>

\* parameter names of tool schemas and keys of argument dicts
ParamNames == {"x", "y", "nama_mahasiswa"}

\* lists of distinct names: required lists, property keys, argument keys
NameLists ==
    {l \in UNION {[1..n -> ParamNames] : n \in 0..MaxParams} :
        \A i, j \in 1..Len(l) : l[i] = l[j] => i = j}

\* what the agent may pass as a bare argument or as a value in a dict
ScalarArguments == {PyStr("Agus Setiawan"), PyStr(""), PyInt("1"), PyInt("0")}

DictArgumentValues == {PyStr("Agus Setiawan"), PyInt("1"), PyInt("2")}

DictArguments ==
    UNION {{PyDict([i \in 1..Len(ks) |-> [k |-> ks[i], v |-> vs[i]]]) :
               vs \in [1..Len(ks) -> DictArgumentValues]} : ks \in NameLists}

RawArguments == DictArguments \cup ScalarArguments \cup {PyNone}

InitPrepare ==
    /\ InitOrchestratorIdle
    /\ text_call = NotCalled
    /\ tool_call = NotCalled
    /\ interactive = NotCalled
    /\ retr_call = NoRetrieveCall
    /\ index_call = NoIndexCall
    /\ \E a \in RawArguments, r \in NameLists, p \in NameLists :
           prep_call = [pc |-> "called", arguments |-> a, required_props |-> r,
                        properties |-> p, payload |-> <<>>]

\* payload = self._prepare_tool_arguments(arguments, required_props, properties)
PrepareToolArgumentsCall ==
    /\ prep_call.pc = "called"
    /\ prep_call' = [prep_call EXCEPT
                        !.pc = "returned",
                        !.payload = PrepareToolArguments(prep_call.arguments,
                                                         prep_call.required_props,
                                                         prep_call.properties)]
    /\ UNCHANGED <<configuration, registry, task, environment, disconnecting,
                   retr_call, index_call,
                   text_call, tool_call, interactive>>

NextPrepare == PrepareToolArgumentsCall

SpecPrepare == InitPrepare /\ [][NextPrepare]_vars

\* ------------------------------------- ToolRetriever.retrieve on its own
\* ids the collection may hold: the catalog's names and the name of a tool
\* that is no longer in the tool descriptions file
IndexIds == SeqRange(Catalog) \cup {"removed_tool"}

\* distances of a query to indexed entries, in tenths
Distances == {0, 10, 14, 15, 20}

\* the entries of the collection as a query sees them: distinct ids, nearest
\* first; only an entry whose embedding is the query's is at distance 0
Indexes ==
    {ix \in UNION {[1..n -> [id : IndexIds, distance : Distances]] : n \in 1..MaxIndexed} :
        /\ \A i, j \in 1..Len(ix) : ix[i].id = ix[j].id => i = j
        /\ \A i, j \in 1..Len(ix) : i < j => ix[i].distance <= ix[j].distance
        /\ \A i \in 2..Len(ix) : ix[i].distance # 0}

\* top_k: 1, 2, the RAG_TOP_K of the orchestrators, 5
TopKs == {1, 2, RAG_TOP_K, 5}

\* score_threshold in 1/200: -1.0, 0.0 (the default), 0.5, 0.99, 1.0
Thresholds == {-200, 0, 100, 198, 200}

InitRetrieve ==
    /\ InitOrchestratorIdle
    /\ text_call = NotCalled
    /\ tool_call = NotCalled
    /\ interactive = NotCalled
    /\ prep_call = NoPrepareCall
    /\ index_call = NoIndexCall
    /\ \E ix \in Indexes, k \in TopKs, t \in Thresholds :
           retr_call = [pc |-> "called", index |-> ix, top_k |-> k,
                        score_threshold |-> t, retrieved_tools |-> <<>>]

\* retrieved_tools = retriever.retrieve(query, top_k, score_threshold)
RetrieveCall ==
    /\ retr_call.pc = "called"
    /\ retr_call' = [retr_call EXCEPT
                        !.pc = "returned",
                        !.retrieved_tools =
                            Retrieve(CollectionQuery(retr_call.index, retr_call.top_k),
                                     Catalog, retr_call.score_threshold)]
    /\ UNCHANGED <<configuration, registry, task, environment, disconnecting,
                   prep_call, index_call,
                   text_call, tool_call, interactive>>

NextRetrieve == RetrieveCall

SpecRetrieve == InitRetrieve /\ [][NextRetrieve]_vars

\* ------------------------------- ToolRetriever construction on its own
\* the tool descriptions file: a non-empty list of tools with distinct names
CatalogFiles ==
    {l \in UNION {[1..n -> IndexIds] : n \in 1..MaxCatalog} :
        \A i, j \in 1..Len(l) : l[i] = l[j] => i = j}

\* _create_searchable_text(tool) and embedding_model.encode of it: the
\* vector is a function of the tool's text
EmbeddingOf(tool) == [text |-> <<"Tool:", tool>>]

\* an indexing that adds the catalog to whatever the collection holds
IndexToolsAlways(tools, collection) ==
    collection \o [i \in 1..Len(tools) |-> [id |-> tools[i], embedding |-> EmbeddingOf(tools[i])]]

\* "if self.collection.count() == 0: self._index_tools()": collection.add of
\* one entry per tool, with the tool's name as its id
IndexTools(tools, collection) ==
    IF Len(collection) = 0
    THEN [i \in 1..Len(tools) |-> [id |-> tools[i], embedding |-> EmbeddingOf(tools[i])]]
    ELSE collection

InitIndex ==
    /\ InitOrchestratorIdle
    /\ text_call = NotCalled
    /\ tool_call = NotCalled
    /\ interactive = NotCalled
    /\ prep_call = NoPrepareCall
    /\ retr_call = NoRetrieveCall
    /\ \E f \in CatalogFiles :
           index_call = [pc |-> "file", file |-> f, tools |-> <<>>, collection |-> <<>>,
                         before |-> <<>>, unchanged |-> FALSE, constructed |-> 0]

\* ToolRetriever(...): the file is loaded into self.tools, the persisted
\* collection is opened and is indexed if it is empty.  "before" is the
\* collection as this construction found it, "unchanged" tells that the
\* previous construction had loaded the same catalog.
ConstructRetriever ==
    /\ index_call.pc = "file"
    /\ index_call' = [index_call EXCEPT
                         !.tools = index_call.file,
                         !.collection = IndexTools(index_call.file, index_call.collection),
                         !.before = index_call.collection,
                         !.unchanged = (index_call.constructed > 0
                                            /\ index_call.tools = index_call.file),
                         !.constructed = IF @ < 2 THEN @ + 1 ELSE @]
    /\ UNCHANGED <<configuration, registry, task, environment, disconnecting,
                   prep_call, retr_call,
                   text_call, tool_call, interactive>>

\* the tool descriptions file is edited between two runs of the program
EditCatalogFile ==
    /\ index_call.pc = "file"
    /\ index_call.constructed > 0
    /\ index_call.file = index_call.tools
    /\ \E f \in CatalogFiles \ {index_call.file} :
           index_call' = [index_call EXCEPT !.file = f]
    /\ UNCHANGED <<configuration, registry, task, environment, disconnecting,
                   prep_call, retr_call,
                   text_call, tool_call, interactive>>

NextIndex == ConstructRetriever \/ EditCatalogFile

SpecIndex == InitIndex /\ [][NextIndex]_vars

\* ------------------------------- the text of a call_tool response
\* Strings are sequences of characters.  A content part of a CallToolResult
\* is a TextContent, which has a text attribute, or a part of another type
\* (ImageContent, EmbeddedResource), which has none.
ContentParts ==
    {[type |-> "text", text |-> <<>>], [type |-> "text", text |-> <<"a">>],
     [type |-> "text", text |-> <<"b">>], [type |-> "image", text |-> <<>>]}

Contents == UNION {[1..n -> ContentParts] : n \in 0..MaxParts}

\* "\n".join(texts)
RECURSIVE Join(_)
Join(texts) ==
    IF Len(texts) = 0 THEN <<>>
    ELSE IF Len(texts) = 1 THEN texts[1]
    ELSE texts[1] \o <<"\n">> \o Join(Tail(texts))

\* [part.text for part in content if hasattr(part, "text") and part.text]
RECURSIVE TextsOf(_)
TextsOf(content) ==
    IF content = <<>> THEN <<>>
    ELSE IF Head(content).type = "text" /\ Head(content).text # <<>>
         THEN <<Head(content).text>> \o TextsOf(Tail(content))
         ELSE TextsOf(Tail(content))

\* RemoteMCPOrchestrator: async_wrapper, after call_tool has answered
RemoteResultText(content) ==
    IF content # <<>>
    THEN [kind |-> "return", text |-> Join(TextsOf(content))]
    ELSE [kind |-> "return", text |-> <<>>]

\* ProperMCPOrchestrator: call_tool_wrapper, after call_tool has answered:
\* "return result.content[0].text if result.content else ''"; the attribute
\* access raises AttributeError on a part without text
ProperResultText(content) ==
    IF content # <<>>
    THEN IF content[1].type = "text"
         THEN [kind |-> "return", text |-> content[1].text]
         ELSE [kind |-> "raise", text |-> <<>>]
    ELSE [kind |-> "return", text |-> <<>>]

InitResultText ==
    /\ InitOrchestratorIdle
    /\ prep_call = NoPrepareCall
    /\ retr_call = NoRetrieveCall
    /\ index_call = NoIndexCall
    /\ tool_call = NotCalled
    /\ interactive = NotCalled
    /\ \E c \in Contents : text_call = [pc |-> "answered", content |-> c, result |-> <<>>]

RemoteAsyncWrapper ==
    /\ text_call.pc = "answered"
    /\ text_call' = [text_call EXCEPT !.pc = "remote",
                                      !.result = RemoteResultText(text_call.content)]
    /\ UNCHANGED <<configuration, registry, task, environment, disconnecting,
                   prep_call, retr_call, index_call, tool_call, interactive>>

ProperCallToolWrapper ==
    /\ text_call.pc = "answered"
    /\ text_call' = [text_call EXCEPT !.pc = "proper",
                                      !.result = ProperResultText(text_call.content)]
    /\ UNCHANGED <<configuration, registry, task, environment, disconnecting,
                   prep_call, retr_call, index_call, tool_call, interactive>>

NextResultText == RemoteAsyncWrapper \/ ProperCallToolWrapper

SpecResultText == InitResultText /\ [][NextResultText]_vars

\* ------------------------------- the tools of the two servers and kampus.db
\* kampus.db: each student's advisor (mahasiswa.id_dospem joined with dosen)
\* and each student's grade in a course (transkrip.nilai_huruf)
Students == {"Agus Setiawan", "Rini Wijaya"}

Grades == {"A", "B", "C"}

Databases ==
    [dospem : [Students -> {"Dr. Budi Santoso", "Prof. Siti Aminah"}],
     nilai : [Students -> Grades]]

\* values of nama_mahasiswa: a student, an unknown name, SQL in a name
StudentNames == Students \cup {"Unknown Student", "x'; UPDATE transkrip SET nilai_huruf='C"}

\* the SQL text of each tool
AdvisorQuery == "SELECT d.nama_dosen FROM mahasiswa m JOIN dosen d ... WHERE m.nama_mahasiswa = ?"

CoursesQuery == "SELECT mk.nama_matkul, t.nilai_huruf FROM mahasiswa m JOIN transkrip t ... WHERE m.nama_mahasiswa = ?"

StudentsQuery == "SELECT nama_mahasiswa FROM mahasiswa ORDER BY nama_mahasiswa"

\* DatabaseConnection.execute_query: connect, execute, fetch, close; nothing
\* is committed.  A sqlite3.Error is printed and None is returned (None and
\* the empty list are the falsy <<>>).
\* The rows of a SELECT: a bound parameter is compared as a value.
ExecuteQuery(db, query, params, fetch_one, sqlite_ok) ==
    LET rows ==
            IF query = AdvisorQuery
            THEN IF params[1] \in Students THEN <<<<db.dospem[params[1]]>>>> ELSE <<>>
            ELSE IF query = CoursesQuery
            THEN IF params[1] \in Students
                 THEN <<<<"Kecerdasan Buatan", db.nilai[params[1]]>>>> ELSE <<>>
            ELSE <<<<"Agus Setiawan">>, <<"Rini Wijaya">>>>
    IN [result |-> IF ~sqlite_ok THEN <<>>
                   ELSE IF fetch_one THEN (IF rows = <<>> THEN <<>> ELSE rows[1])
                   ELSE rows,
        db |-> db]

GetDosenPembimbing(db, nama_mahasiswa, sqlite_ok) ==
    LET q == ExecuteQuery(db, AdvisorQuery, <<nama_mahasiswa>>, TRUE, sqlite_ok)
    IN [result |-> IF q.result # <<>>
                   THEN <<"Dosen pembimbing", nama_mahasiswa, q.result[1]>>
                   ELSE <<"Mahasiswa", nama_mahasiswa, "tidak ditemukan dalam database">>,
        db |-> q.db]

GetMataKuliahMahasiswa(db, nama_mahasiswa, sqlite_ok) ==
    LET q == ExecuteQuery(db, CoursesQuery, <<nama_mahasiswa>>, FALSE, sqlite_ok)
    IN [result |-> IF q.result # <<>>
                   THEN <<"Mata kuliah", nama_mahasiswa>>
                            \o [i \in 1..Len(q.result) |-> q.result[i][1]]
                            \o [i \in 1..Len(q.result) |-> q.result[i][2]]
                   ELSE <<"Mahasiswa", nama_mahasiswa, "tidak ditemukan dalam database">>,
        db |-> q.db]

ListAllStudents(db, sqlite_ok) ==
    LET q == ExecuteQuery(db, StudentsQuery, <<>>, FALSE, sqlite_ok)
    IN [result |-> IF q.result # <<>>
                   THEN <<"Mahasiswa terdaftar">> \o [i \in 1..Len(q.result) |-> q.result[i][1]]
                   ELSE <<"Tidak ada mahasiswa dalam database">>,
        db |-> q.db]

\* datetime.now().strftime(...)
GetWaktuSaatIni(db, now) == [result |-> <<now>>, db |-> db]

\* Values of ekspresi, by what eval does with them.  eval() is given empty
\* __builtins__ and five functions: that removes the builtin names, not
\* attribute access.  "attribute_walk" is an expression that goes from a
\* literal to object.__subclasses__(), from there to the importer and to
\* sqlite3, and executes an UPDATE on kampus.db in autocommit mode:
\*   [c for c in ().__class__.__base__.__subclasses__()
\*    if c.__name__ == 'BuiltinImporter'][0].load_module('builtins')
\*   .__import__('sqlite3').connect(<kampus.db>, isolation_level=None)
\*   .execute("UPDATE transkrip SET nilai_huruf = ? ...").rowcount
Expressions ==
    {[kind |-> k, value |-> IF k = "arithmetic" THEN "4" ELSE "", nama |-> "", nilai |-> ""] :
        k \in {"arithmetic", "division_by_zero", "syntax_error", "builtin_name"}}
    \cup {[kind |-> "attribute_walk", value |-> "1", nama |-> n, nilai |-> g] :
              n \in Students, g \in Grades}

\* eval(ekspresi, {"__builtins__": {}}, allowed_names)
Eval(ekspresi, db) ==
    IF ekspresi.kind = "arithmetic"
    THEN [raised |-> "none", value |-> ekspresi.value, db |-> db]
    ELSE IF ekspresi.kind = "division_by_zero"
    THEN [raised |-> "ZeroDivisionError", value |-> "", db |-> db]
    ELSE IF ekspresi.kind = "syntax_error"
    THEN [raised |-> "SyntaxError", value |-> "", db |-> db]
    ELSE IF ekspresi.kind = "builtin_name"
    THEN [raised |-> "NameError", value |-> "", db |-> db]
    ELSE [raised |-> "none", value |-> ekspresi.value,
          db |-> [db EXCEPT !.nilai[ekspresi.nama] = ekspresi.nilai]]

KalkulatorSederhana(db, ekspresi) ==
    LET e == Eval(ekspresi, db)
    IN [result |-> IF e.raised = "none" THEN <<e.value>>
                   ELSE IF e.raised = "ZeroDivisionError" THEN <<"Error: Division by zero">>
                   ELSE <<"Error: Invalid expression", e.raised>>,
        db |-> e.db]

\* the database as setup_database.py left it; no tool has run
InitTools ==
    /\ InitOrchestratorIdle
    /\ prep_call = NoPrepareCall
    /\ retr_call = NoRetrieveCall
    /\ index_call = NoIndexCall
    /\ text_call = NotCalled
    /\ interactive = NotCalled
    /\ \E db \in Databases :
           tool_call = [pc |-> "serving", db |-> db, setup |-> db, tool |-> "none",
                        arguments |-> <<>>, result |-> <<>>]

Ran(tool, arguments, r) ==
    /\ tool_call.pc = "serving"
    /\ tool_call' = [tool_call EXCEPT !.db = r.db, !.tool = tool,
                                      !.arguments = arguments, !.result = r.result]
    /\ UNCHANGED <<configuration, registry, task, environment, disconnecting,
                   prep_call, retr_call, index_call, text_call, interactive>>

GetDosenPembimbingCall ==
    \E n \in StudentNames, ok \in BOOLEAN :
        Ran("get_dosen_pembimbing", <<n>>, GetDosenPembimbing(tool_call.db, n, ok))

GetMataKuliahMahasiswaCall ==
    \E n \in StudentNames, ok \in BOOLEAN :
        Ran("get_mata_kuliah_mahasiswa", <<n>>, GetMataKuliahMahasiswa(tool_call.db, n, ok))

ListAllStudentsCall ==
    \E ok \in BOOLEAN :
        Ran("list_all_students", <<>>, ListAllStudents(tool_call.db, ok))

GetWaktuSaatIniCall ==
    \E now \in {"2025-01-08 10:30:45", "2025-01-08 10:30:46"} :
        Ran("get_waktu_saat_ini", <<>>, GetWaktuSaatIni(tool_call.db, now))

KalkulatorSederhanaCall ==
    \E e \in Expressions :
        Ran("kalkulator_sederhana", <<e>>, KalkulatorSederhana(tool_call.db, e))

NextTools ==
    \/ GetDosenPembimbingCall
    \/ GetMataKuliahMahasiswaCall
    \/ ListAllStudentsCall
    \/ GetWaktuSaatIniCall
    \/ KalkulatorSederhanaCall

SpecTools == InitTools /\ [][NextTools]_vars

\* ------------------------------- the interactive loops of the drivers
\* interactive_mode (AgenKampusOrchestrator) and run_interactive (the two
\* MCP orchestrators) read lines from standard input until they break.  A
\* line is a word with or without blanks around it; standard input is a
\* finite sequence of lines followed by end-of-input, at which input()
\* raises EOFError.  query(), connect_mcp_servers() and
\* disconnect_mcp_servers() are the ones of Spec; the loop sees of them
\* only whether they return or raise.
\* A text is the sequence of its characters.
\* what the user may type: the quit words, an empty line and a question
Words ==
    {<<"e", "x", "i", "t">>, <<"q", "u", "i", "t">>, <<"q">>, <<"Q">>, <<>>,
     <<"J", "a", "m", " ", "2", "?">>}

\* standard input: at most MaxLines lines, then end-of-input; a line is a
\* word, alone or with a blank before it and after it
Stdins ==
    UNION {[1..n -> Words \cup {<<" ">> \o w \o <<" ">> : w \in Words}] :
              n \in 0..MaxLines}

\* str.strip(): leading and trailing whitespace goes, the rest is kept
Strip(text) ==
    LET kept == {i \in 1..Len(text) : text[i] \notin {" ", "\t", "\n", "\r"}}
        first == CHOOSE i \in kept : \A j \in kept : i <= j
        last == CHOOSE i \in kept : \A j \in kept : j <= i
    IN IF kept = {} THEN <<>> ELSE SubSeq(text, first, last)

\* str.lower(): every upper-case letter becomes its lower-case letter
Lower(text) ==
    LET upper == <<"A", "B", "C", "D", "E", "F", "G", "H", "I", "J", "K", "L", "M",
                   "N", "O", "P", "Q", "R", "S", "T", "U", "V", "W", "X", "Y", "Z">>
        lower == <<"a", "b", "c", "d", "e", "f", "g", "h", "i", "j", "k", "l", "m",
                   "n", "o", "p", "q", "r", "s", "t", "u", "v", "w", "x", "y", "z">>
        LowerOf(c) == IF \E i \in 1..26 : upper[i] = c
                      THEN lower[CHOOSE i \in 1..26 : upper[i] = c]
                      ELSE c
    IN [i \in 1..Len(text) |-> LowerOf(text[i])]

\* the words on which a loop breaks
QuitTokens ==
    {<<"e", "x", "i", "t">>, <<"q", "u", "i", "t">>, <<"q">>}
        \cup IF variant = "direct" THEN {<<>>} ELSE {}

\* "except Exception" inside the while loop: the two loops that have one
CatchesInLoop == variant \in {"direct", "proper"}

\* main(): the orchestrator is constructed with its defaults and the loop
\* is started; the loop calls query(user_input) with use_rag=True
InitInteractive ==
    /\ InitCommon
    /\ variant \in {"remote", "proper", "direct"}
    /\ server_configs \in IF variant = "direct" THEN {<<>>}
                          ELSE IF variant = "proper" THEN ProperConfigs
                          ELSE {cfg \in RemoteConfigs : DistinctNames(cfg)}
    /\ max_iterations = AGENT_MAX_ITERATIONS
    /\ inputs = [AnyInputs EXCEPT !.use_rag = {TRUE}]
    /\ all_tools \in IF variant = "direct" THEN DirectToolTables ELSE {<<>>}
    /\ prep_call = NoPrepareCall
    /\ retr_call = NoRetrieveCall
    /\ index_call = NoIndexCall
    /\ text_call = NotCalled
    /\ tool_call = NotCalled
    /\ \E lines \in Stdins :
           interactive = [pc |-> "start", stdin |-> lines, user_input |-> <<>>,
                          event |-> "none", exc |-> "none", disconnected |-> FALSE]

\* the banner is printed; the MCP orchestrators then await
\* connect_mcp_servers(), before the try
RunInteractive ==
    /\ interactive.pc = "start"
    /\ interactive' = [interactive EXCEPT
                          !.pc = IF variant = "direct" THEN "prompt" ELSE "connect"]
    /\ UNCHANGED <<configuration, registry, task, environment, disconnecting,
                   prep_call, retr_call, index_call, text_call, tool_call>>

\* "await self.connect_mcp_servers()" is over: RemoteMCPOrchestrator has
\* re-raised a failure to connect, which leaves run_interactive before its
\* try; ProperMCPOrchestrator has printed it and returned
ConnectAwaited ==
    /\ interactive.pc = "connect"
    /\ task[1].pc = "done"
    /\ interactive' = IF task[1].res.kind = "raise"
                      THEN [interactive EXCEPT !.pc = "raised", !.exc = "connect"]
                      ELSE [interactive EXCEPT !.pc = "prompt"]
    /\ task' = [task EXCEPT ![1] = IdleTask]
    /\ UNCHANGED <<configuration, registry, environment, disconnecting,
                   prep_call, retr_call, index_call, text_call, tool_call>>

\* user_input = input(...).strip() and the tests on it
ReadInput ==
    /\ interactive.pc = "prompt"
    /\ interactive' =
         IF interactive.stdin = <<>>
         THEN [interactive EXCEPT !.pc = IF CatchesInLoop THEN "except" ELSE "finally",
                                  !.exc = "EOFError",
                                  !.event = "eof"]
         ELSE LET user_input == Strip(Head(interactive.stdin))
                  read == [interactive EXCEPT !.stdin = Tail(@), !.user_input = user_input]
              IN IF Lower(user_input) \in QuitTokens
                 THEN [read EXCEPT !.pc = IF variant = "direct" THEN "exited" ELSE "finally",
                                   !.event = IF user_input = <<>> THEN "empty" ELSE "quit"]
                 ELSE IF user_input = <<>>
                 THEN read
                 ELSE [read EXCEPT !.pc = "query"]
    /\ UNCHANGED <<configuration, registry, task, environment, disconnecting,
                   prep_call, retr_call, index_call, text_call, tool_call>>

\* result = self.query(user_input) is over: the loop prints the answer or
\* the error of the result and prompts again, or query() has raised
QueryReturns ==
    /\ interactive.pc = "query"
    /\ task[1].pc = "done"
    /\ interactive' =
           IF task[1].res.kind = "return" THEN [interactive EXCEPT !.pc = "prompt"]
           ELSE [interactive EXCEPT !.pc = IF CatchesInLoop THEN "except" ELSE "finally",
                                    !.exc = "query"]
    /\ task' = [task EXCEPT ![1] = IdleTask]
    /\ UNCHANGED <<configuration, registry, environment, disconnecting,
                   prep_call, retr_call, index_call, text_call, tool_call>>

\* "except Exception as e: print(...)": the loop goes on
ExceptPrinted ==
    /\ interactive.pc = "except"
    /\ interactive' = [interactive EXCEPT !.pc = "prompt", !.exc = "none"]
    /\ UNCHANGED <<configuration, registry, task, environment, disconnecting,
                   prep_call, retr_call, index_call, text_call, tool_call>>

\* "finally: await self.disconnect_mcp_servers()" is over; a pending
\* exception leaves run_interactive after it
FinallyDisconnected ==
    /\ interactive.pc = "finally"
    /\ discReturned
    /\ interactive' = [interactive EXCEPT
                          !.pc = IF interactive.exc = "none" THEN "exited" ELSE "raised",
                          !.disconnected = TRUE]
    /\ UNCHANGED <<configuration, registry, task, environment, disconnecting,
                   prep_call, retr_call, index_call, text_call, tool_call>>

\* the loop, and the calls it awaits: connect_mcp_servers, query and
\* disconnect_mcp_servers run step by step as they do for any caller
NextInteractive ==
    \/ RunInteractive
    \/ ConnectAwaited
    \/ ReadInput
    \/ QueryReturns
    \/ ExceptPrinted
    \/ FinallyDisconnected
    \/ RemoteConnectCall(1)
    \/ RemoteQueryStart(1)
    \/ RemoteOpenDone(1)
    \/ RemoteSessionDone(1)
    \/ RemoteInitializeDone(1)
    \/ RemoteListToolsDone(1)
    \/ ProperConnectCall(1)
    \/ ProperQueryStart(1)
    \/ ProperOpenDone(1)
    \/ ProperInitializeDone(1)
    \/ ProperListToolsDone(1)
    \/ DirectQueryStart(1)
    \/ DecideFinish(1)
    \/ DecideError(1)
    \/ DecideTool(1)
    \/ ToolDone(1)
    \/ DisconnectStart
    \/ CloseDone

\* the loop is sequential code of one process: its next step is taken
SpecInteractive ==
    InitInteractive /\ [][NextInteractive]_vars /\ WF_vars(NextInteractive)

\* ================================================================ claims
Connecting == {"open", "sess", "init", "list"}

RegistryEmpty ==
    /\ transport_contexts = <<>>
    /\ session_contexts = <<>>
    /\ sessions = <<>>
    /\ mcp_sessions = <<>>
    /\ all_tools = <<>>

\* C1 (as claimed): once disconnect_mcp_servers has returned, the registry
\* holds no session, no session or transport handle and no registered tool,
\* in RemoteMCPOrchestrator and in ProperMCPOrchestrator alike.
C1_RegistryEmptyAfterDisconnect == discReturned => RegistryEmpty

\* C2: a call of RemoteMCPOrchestrator.connect_mcp_servers (directly or from
\* query()) made while the session table is non-empty returns early: it
\* opens no transport, hands out no handle, registers nothing and leaves the
\* session, transport and tool tables as they were.
C2_ConnectWhenConnectedIsNoOp ==
    [][\A q \in Tasks :
          (/\ variant = "remote"
           /\ task[q].pc = "idle"
           /\ task'[q].pc # "idle"
           /\ sessions # <<>>)
          => (/\ registry' = registry
              /\ nextH' = nextH
              /\ owner' = owner
              /\ listed' = listed
              /\ task'[q].early
              /\ task'[q].pc \notin Connecting)]_vars

\* a direct connect_mcp_servers call has returned early on a registry that
\* holds sessions and tools
C2_Witness ==
    \E q \in Tasks :
        /\ variant = "remote"
        /\ task[q].op = "connect"
        /\ task[q].pc = "done"
        /\ task[q].early
        /\ task[q].res.kind = "return"
        /\ Len(sessions) = 2
        /\ all_tools # <<>>

\* transports opened for config entry i since the last disconnect
OpenedFor(i) == {h \in genStart..(nextH - 1) : owner[h] = i}

\* C3 (as claimed): when query() calls interleave at the awaits of
\* connect_mcp_servers and no connect step fails, the transport of each
\* configured service is opened at most once.
C3_EachServiceOpenedOnce ==
    ~anyFail => \A i \in 1..Len(server_configs) : Cardinality(OpenedFor(i)) <= 1

\* C4 (as claimed): a connect_mcp_servers call during which a configured
\* service failed to connect, initialize or list its tools does not return
\* normally, in RemoteMCPOrchestrator and in ProperMCPOrchestrator alike.
C4_ConnectFailurePropagates ==
    \A q \in Tasks :
        (task[q].op = "connect" /\ task[q].pc = "done" /\ task[q].failed)
        => task[q].res.kind = "raise"

\* C5: a query performs at most AGENT_MAX_ITERATIONS rounds; when the count
\* reaches the limit the query has returned a result, and the stopped
\* response is returned after exactly AGENT_MAX_ITERATIONS rounds.
C5_RoundLimit ==
    \A q \in Tasks :
        /\ task[q].iter <= AGENT_MAX_ITERATIONS
        /\ Len(task[q].steps) = task[q].iter
        /\ task[q].iter = AGENT_MAX_ITERATIONS
           => (task[q].pc = "done" /\ task[q].res.kind = "return")
        /\ (task[q].pc = "done" /\ task[q].res.answer = "stopped")
           => task[q].iter = AGENT_MAX_ITERATIONS

\* the decision model asked for a tool in every round, tools were called,
\* and the query returned the stopped response
C5_Witness ==
    \E q \in Tasks :
        /\ task[q].pc = "done"
        /\ task[q].res.answer = "stopped"
        /\ task[q].iter = AGENT_MAX_ITERATIONS
        /\ task[q].invoked # {}

\* the retrieved names that are registered, in retrieval order
RECURSIVE RegisteredHits(_, _)
RegisteredHits(names, tools) ==
    IF names = <<>> THEN <<>>
    ELSE IF Head(names) \in DictKeys(tools)
         THEN <<Head(names)>> \o RegisteredHits(Tail(names), tools)
         ELSE RegisteredHits(Tail(names), tools)

\* C6: in a query with use_rag whose retrieval has a registered hit, the
\* tools handed to the decision step are exactly the registered hits in
\* retrieval order, and every tool the query executes is one of them.
C6_NarrowedSetEnforced ==
    \A q \in Tasks :
        (/\ task[q].op = "query"
         /\ task[q].rag
         /\ task[q].pc \in {"decide", "invoke"}
         /\ RegisteredHits(task[q].retrieved, all_tools) # <<>>)
        => (/\ ToolNamesOf(task[q].selected) = RegisteredHits(task[q].retrieved, all_tools)
            /\ task[q].invoked \subseteq SeqRange(task[q].retrieved)
            /\ task[q].pc = "invoke" => task[q].cur.name \in SeqRange(task[q].retrieved))

\* the decision model asked for a registered tool outside the narrowed set:
\* the round was spent and no tool was executed
C6_Witness ==
    \E q \in Tasks :
        /\ task[q].op = "query"
        /\ task[q].rag
        /\ task[q].pc = "decide"
        /\ task[q].selected # <<>>
        /\ task[q].ask \in DictKeys(all_tools)
        /\ ~SelectedHas(task[q], task[q].ask)
        /\ task[q].iter > 0
        /\ task[q].invoked = {}

\* C7 (as claimed): query() never raises; a failure while processing a query
\* is returned as a result with success=false, in all three variants.
C7_QueryNeverRaises ==
    \A q \in Tasks :
        (task[q].op = "query" /\ task[q].pc = "done")
        => (/\ task[q].res.kind = "return"
            /\ task[q].res.answer = "error" => task[q].res.success = "false")

\* C8: in RemoteMCPOrchestrator.disconnect_mcp_servers every close of a
\* session is attempted before every close of a transport, and when the
\* first transport close is attempted all registered sessions have had theirs.
C8_SessionsBeforeTransports ==
    variant = "remote" =>
        \A j \in 1..Len(closeLog) :
            closeLog[j].kind = "transport" =>
                /\ \A i \in 1..Len(closeLog) : closeLog[i].kind = "session" => i < j
                /\ \A h \in discSnap.sess :
                      \E i \in 1..(j - 1) :
                          closeLog[i].kind = "session" /\ closeLog[i].h = h

\* a disconnect of two services has returned; a session close had failed
\* and the transports were closed after it
C8_Witness ==
    /\ variant = "remote"
    /\ discReturned
    /\ Cardinality(discSnap.sess) = 2
    /\ Cardinality(discSnap.trans) = 2
    /\ \E i \in 1..Len(closeLog) : closeLog[i].kind = "session" /\ ~closeLog[i].ok
    /\ \E i \in 1..Len(closeLog) : closeLog[i].kind = "transport"

CloseAttempts(kind, h) ==
    {i \in 1..Len(closeLog) : closeLog[i].kind = kind /\ closeLog[i].h = h}

\* C9: when disconnect_mcp_servers has returned, every session and every
\* transport the registry held has had exactly one close attempt, whichever
\* closes failed, and nothing else was closed.
C9_EveryHandleClosedOnce ==
    discReturned =>
        /\ \A h \in discSnap.sess : Cardinality(CloseAttempts("session", h)) = 1
        /\ \A h \in discSnap.trans : Cardinality(CloseAttempts("transport", h)) = 1
        /\ Len(closeLog) = Cardinality(discSnap.sess) + Cardinality(discSnap.trans)

\* a disconnect has returned although its first close failed, and closes
\* were attempted after the failure
C9_Witness ==
    /\ discReturned
    /\ Len(closeLog) >= 2
    /\ ~closeLog[1].ok

\* the handles of the current connect loop whose service advertises n
Advertisers(n) == {h \in SeqRange(listed) : n \in SeqRange(server_configs[owner[h]].tools)}

AdvertisedNames == {n \in ToolNames : Advertisers(n) # {}}

\* C10: every tool name advertised in the connect loop has one entry in the
\* flat table, bound to that name and to the session of the last service in
\* configuration order that advertised it; a loop that ran without failure
\* has registered every configured service; in RemoteMCPOrchestrator the
\* table has no other entry; a tool call goes to the entry's session under
\* the entry's name.
C10_ToolTableRouting ==
    variant \in {"remote", "proper"} =>
        /\ \A n \in AdvertisedNames :
              /\ n \in DictKeys(all_tools)
              /\ Cardinality({i \in 1..Len(all_tools) : all_tools[i].k = n}) = 1
              /\ DictGet(all_tools, n).name = n
              /\ DictGet(all_tools, n).sess \in Advertisers(n)
              /\ \A h \in Advertisers(n) : owner[h] <= owner[DictGet(all_tools, n).sess]
        /\ variant = "remote" => DictKeys(all_tools) = AdvertisedNames
        /\ \A q \in Tasks :
              /\ (/\ task[q].op = "connect" /\ task[q].pc = "done" /\ ~discReturned
                  /\ task[q].res.kind = "return" /\ ~task[q].early /\ ~task[q].failed)
                 => {owner[h] : h \in SeqRange(listed)} = 1..Len(server_configs)
              /\ task[q].pc = "invoke"
                 => (/\ task[q].cur.name = task[q].ask
                     /\ task[q].cur.name \in DictKeys(all_tools)
                     /\ task[q].cur.sess = DictGet(all_tools, task[q].cur.name).sess)

\* two configured entries are served by servers that advertise T2 (the
\* akademik server under a name and without one) and a call of T2 is in
\* flight on the session of the second one
C10_Witness ==
    \E q \in Tasks :
        /\ variant \in {"remote", "proper"}
        /\ task[q].pc = "invoke"
        /\ task[q].cur.name = T2
        /\ Cardinality(Advertisers(T2)) = 2
        /\ owner[task[q].cur.sess] = 2

\* C11 (as claimed): when RemoteMCPOrchestrator.connect_mcp_servers has gone
\* through its loop over n configured entries and returned normally, n
\* transports have been opened and the session table holds n sessions, one
\* for each configured entry, also when entries share a name or have none.
C11_OneSessionPerEntry ==
    \A q \in Tasks :
        (/\ variant = "remote"
         /\ task[q].op = "connect"
         /\ task[q].pc = "done"
         /\ task[q].res.kind = "return"
         /\ ~task[q].early
         /\ ~anyFail
         /\ dpc = "idle"
         /\ ~discReturned)
        => (/\ nextH - genStart = Len(server_configs)
            /\ Len(sessions) = Len(server_configs)
            /\ \A i \in 1..Len(server_configs) :
                   \E j \in 1..Len(sessions) : owner[sessions[j].v] = i)

PrepareReturned == prep_call.pc = "returned"

ArgumentKeys == DictKeys(prep_call.arguments.items)

DeclaredKeys == ArgumentKeys \cap SeqRange(prep_call.properties)

\* C12: for a tool that declares no properties and no required parameters,
\* _prepare_tool_arguments returns the empty mapping whatever was passed
\* (a mapping, a string, another scalar or None).
C12_NoParametersGivesEmpty ==
    (/\ PrepareReturned
     /\ prep_call.properties = <<>>
     /\ prep_call.required_props = <<>>)
    => prep_call.payload = <<>>

C12_Witness ==
    /\ PrepareReturned
    /\ prep_call.properties = <<>>
    /\ prep_call.required_props = <<>>
    /\ prep_call.arguments.kind = "dict"
    /\ Len(prep_call.arguments.items) = 2
    /\ prep_call.payload = <<>>

\* C13: when the arguments are a mapping that shares a key with the declared
\* properties, the result is the restriction of the mapping to the declared
\* names: every other key is dropped, every kept key keeps its value.
C13_MappingRestrictedToDeclared ==
    (/\ PrepareReturned
     /\ prep_call.arguments.kind = "dict"
     /\ DeclaredKeys # {})
    => (/\ DictKeys(prep_call.payload) = DeclaredKeys
        /\ Len(prep_call.payload) = Cardinality(DeclaredKeys)
        /\ \A key \in DeclaredKeys :
               DictGet(prep_call.payload, key) = DictGet(prep_call.arguments.items, key))

C13_Witness ==
    /\ PrepareReturned
    /\ prep_call.arguments = PyDict(<<[k |-> "x", v |-> PyInt("1")],
                                      [k |-> "y", v |-> PyInt("2")]>>)
    /\ prep_call.required_props = <<"x">>
    /\ prep_call.properties = <<"x">>
    /\ prep_call.payload = <<[k |-> "x", v |-> PyInt("1")]>>

\* C14: when the arguments are a mapping with no key among the declared
\* properties and there is a required parameter, the result has the single
\* key required_props[0], bound to what the mapping holds under that name
\* (None, as dict.get answers, when it holds nothing).
C14_MappingFallsBackToFirstRequired ==
    (/\ PrepareReturned
     /\ prep_call.arguments.kind = "dict"
     /\ DeclaredKeys = {}
     /\ prep_call.required_props # <<>>)
    => (/\ Len(prep_call.payload) = 1
        /\ prep_call.payload[1].k = prep_call.required_props[1]
        /\ prep_call.payload[1].v =
               IF prep_call.required_props[1] \in ArgumentKeys
               THEN DictGet(prep_call.arguments.items, prep_call.required_props[1])
               ELSE PyNone)

C14_Witness ==
    /\ PrepareReturned
    /\ prep_call.arguments = PyDict(<<[k |-> "y", v |-> PyInt("2")]>>)
    /\ prep_call.required_props = <<"y", "x">>
    /\ prep_call.properties = <<"x">>
    /\ prep_call.payload = <<[k |-> "y", v |-> PyInt("2")]>>

\* C15: a bare scalar (a string or another non-mapping value that is not
\* None) is bound to the first required parameter; with no required
\* parameter the result is the empty mapping.
C15_ScalarBoundToFirstRequired ==
    (/\ PrepareReturned
     /\ prep_call.arguments.kind \in {"str", "int"})
    => prep_call.payload =
           IF prep_call.required_props # <<>>
           THEN <<[k |-> prep_call.required_props[1], v |-> prep_call.arguments]>>
           ELSE <<>>

C15_Witness ==
    /\ PrepareReturned
    /\ prep_call.arguments = PyStr("Agus Setiawan")
    /\ prep_call.required_props = <<"nama_mahasiswa", "x">>
    /\ prep_call.properties = <<"nama_mahasiswa", "x">>
    /\ prep_call.payload = <<[k |-> "nama_mahasiswa", v |-> PyStr("Agus Setiawan")]>>

\* C16 (as claimed): when the arguments are None or an empty mapping, the
\* result is the empty mapping for every tool schema: no parameter is bound
\* to a missing value.
C16_EmptyArgumentsGiveEmpty ==
    (/\ PrepareReturned
     /\ \/ prep_call.arguments.kind = "none"
        \/ prep_call.arguments = PyDict(<<>>))
    => prep_call.payload = <<>>

RetrieveReturned == retr_call.pc = "returned"

Hits == retr_call.retrieved_tools

HitNames(hits) == {hits[i].name : i \in 1..Len(hits)}

QueryResults == CollectionQuery(retr_call.index, retr_call.top_k)

\* C17: every hit retrieve returns has a similarity score of at least the
\* threshold, and the tools returned under a threshold are among the tools
\* returned, for the same query, top_k and index, under any lower threshold.
C17_ThresholdFilterMonotone ==
    RetrieveReturned
    => (/\ \A i \in 1..Len(Hits) : Hits[i].similarity_score >= retr_call.score_threshold
        /\ \A t2 \in Thresholds :
               t2 <= retr_call.score_threshold
               => HitNames(Hits) \subseteq HitNames(Retrieve(QueryResults, Catalog, t2)))

C17_Witness ==
    /\ RetrieveReturned
    /\ retr_call.top_k = 5
    /\ retr_call.score_threshold = 198
    /\ Hits # <<>>
    /\ HitNames(Hits) # HitNames(Retrieve(QueryResults, Catalog, 0))

\* C18 (as claimed): in every sequence retrieve returns, the hit at position
\* i (from 1) carries retrieval_rank i, whatever the index holds and
\* whatever the threshold.
C18_RankIsPosition ==
    RetrieveReturned
    => \A i \in 1..Len(Hits) : Hits[i].retrieval_rank = i

\* C19: every hit names a tool of the loaded catalog; an id of the index
\* that matches no catalog entry is skipped and the other results that pass
\* the threshold are still returned.
C19_HitsAreCatalogTools ==
    RetrieveReturned
    => (/\ HitNames(Hits) \subseteq SeqRange(Catalog)
        /\ \A i \in 1..Len(QueryResults) :
               (/\ QueryResults[i].id \in SeqRange(Catalog)
                /\ Similarity(QueryResults[i].distance) >= retr_call.score_threshold)
               => QueryResults[i].id \in HitNames(Hits))

C19_Witness ==
    /\ RetrieveReturned
    /\ retr_call.score_threshold = 0
    /\ Len(QueryResults) = 3
    /\ QueryResults[1].id = "removed_tool"
    /\ QueryResults[1].distance = 10
    /\ Len(Hits) = 2

\* C20: the conversion maps distance 0 to 1.0 and distance 2 to -1.0 and is
\* strictly decreasing between them; an indexed catalog entry at distance 0
\* from the query is returned first, with rank 1 and score 1.0, for top_k at
\* least 1 and any threshold up to 1.0.
C20_IdenticalEntryRanksFirst ==
    /\ Similarity(0) = 200
    /\ Similarity(20) = -200
    /\ \A d1, d2 \in 0..20 : d1 < d2 => Similarity(d1) > Similarity(d2)
    /\ (/\ RetrieveReturned
        /\ retr_call.top_k >= 1
        /\ retr_call.score_threshold <= 200
        /\ \E i \in 1..Len(retr_call.index) :
               /\ retr_call.index[i].distance = 0
               /\ retr_call.index[i].id \in SeqRange(Catalog))
       => (/\ Hits # <<>>
           /\ Hits[1] = [name |-> retr_call.index[1].id,
                          similarity_score |-> 200,
                          retrieval_rank |-> 1])

C20_Witness ==
    /\ RetrieveReturned
    /\ retr_call.score_threshold = 200
    /\ Len(retr_call.index) = 3
    /\ retr_call.index[1] = [id |-> T2, distance |-> 0]
    /\ Hits = <<[name |-> T2, similarity_score |-> 200, retrieval_rank |-> 1]>>

StoredIds == {index_call.collection[i].id : i \in 1..Len(index_call.collection)}

\* C21: constructing ToolRetriever again over the same persisted store and
\* an unchanged catalog leaves the stored ids, their count and their vectors
\* as they were: nothing is added, removed or rewritten.
C21_SecondBuildChangesNothing ==
    (/\ index_call.constructed >= 2
     /\ index_call.unchanged)
    => index_call.collection = index_call.before

C21_Witness ==
    /\ index_call.constructed = 2
    /\ index_call.unchanged
    /\ Len(index_call.tools) = 2
    /\ Len(index_call.collection) = 2
    /\ index_call.collection = index_call.before

\* C22 (as claimed): after a construction the ids stored in the index are
\* the tool names of the loaded catalog, one entry per tool, whatever the
\* store held before, also when the catalog gained or lost tools since the
\* store was written.
C22_IndexMatchesCatalog ==
    index_call.constructed >= 1
    => (/\ StoredIds = SeqRange(index_call.tools)
        /\ Len(index_call.collection) = Len(index_call.tools))

InLoop == {"decide", "invoke"}

\* C23 (as claimed): a query with RAG whose retrieval gives no usable
\* candidate either returns the "no relevant tool" answer, without a
\* decision round and without a tool call, or decides with the full tool
\* table; it never decides with no tool while tools are registered.
C23_NoEmptyCandidateSet ==
    \A q \in Tasks :
        /\ (/\ task[q].rag
            /\ task[q].pc \in InLoop
            /\ all_tools # <<>>)
           => (/\ task[q].selected # <<>>
               /\ SelectTools(task[q].retrieved, all_tools) = <<>>
                      => task[q].selected = DictValues(all_tools))
        /\ task[q].res.answer = "no_tool"
           => (task[q].iter = 0 /\ task[q].invoked = {} /\ task[q].steps = <<>>)

\* C24: a query with use_rag=false does not call the retriever and hands
\* the decision step the full registered tool table, in registration order.
C24_WithoutRagUsesAllTools ==
    \A q \in Tasks :
        (/\ task[q].op = "query"
         /\ ~task[q].rag
         /\ task[q].pc \in InLoop)
        => (/\ task[q].retr = "skipped"
            /\ task[q].retrieved = <<>>
            /\ task[q].selected = DictValues(all_tools))

C24_Witness ==
    \E q \in Tasks :
        /\ task[q].op = "query"
        /\ ~task[q].rag
        /\ task[q].pc = "invoke"
        /\ task[q].retr = "skipped"
        /\ Len(task[q].selected) = 3

\* C25 (as claimed): when the retriever raises during a query, the query
\* does not fail: it goes on to the decision step with the full tool table.
C25_RetrievalFailureFallsBack ==
    \A q \in Tasks :
        task[q].retr = "raised"
        => (/\ task[q].res.kind # "raise"
            /\ task[q].pc \in InLoop => task[q].selected = DictValues(all_tools))

\* C26 (as claimed): a call_tool that raises in RemoteMCPOrchestrator or
\* ProperMCPOrchestrator is the observation of its round: the round is
\* counted and the loop decides again (or stops at the round limit); the
\* query does not end with the error.
C26_ToolFailureIsObservation ==
    [][\A q \in Tasks :
          (/\ variant \in {"remote", "proper"}
           /\ task[q].pc = "invoke"
           /\ task'[q] # task[q])
          => (/\ task'[q].iter = task[q].iter + 1
              /\ task'[q].res.answer # "error")]_vars

\* the texts of the parts that carry text, in order
RECURSIVE PartTexts(_, _)
PartTexts(content, i) ==
    IF i > Len(content) THEN <<>>
    ELSE IF content[i].type = "text" /\ Len(content[i].text) > 0
         THEN <<content[i].text>> \o PartTexts(content, i + 1)
         ELSE PartTexts(content, i + 1)

\* lines separated by newlines
RECURSIVE Lines(_, _)
Lines(texts, i) ==
    IF i > Len(texts) THEN <<>>
    ELSE IF i = Len(texts) THEN texts[i]
    ELSE texts[i] \o <<"\n">> \o Lines(texts, i + 1)

\* C27 (as claimed): in RemoteMCPOrchestrator and in ProperMCPOrchestrator
\* the text a tool wrapper returns is the text of all text-bearing parts of
\* the response, in order, separated by newlines, and the empty string
\* when the response has no content.
C27_TextIsAllPartsJoined ==
    text_call.pc \in {"remote", "proper"}
    => (/\ text_call.result.kind = "return"
        /\ text_call.result.text = Lines(PartTexts(text_call.content, 1), 1))

\* C28 (as claimed): the result of a query that went through the agent loop
\* carries one step per tool request the executor handled, in order, when
\* the loop ends with a final answer and when it stops at the round limit,
\* in all three orchestrators.
C28_ResultCarriesSteps ==
    \A q \in Tasks :
        (/\ task[q].pc = "done"
         /\ task[q].res.kind = "return"
         /\ task[q].res.answer \in {"final", "stopped"})
        => task[q].res.steps = task[q].steps

\* C29 (as claimed): whatever tools the servers run, with whatever
\* arguments, kampus.db holds what it held after setup: no tool writes.
C29_DatabaseUnchanged == tool_call.db = tool_call.setup

\* C30 (as claimed): in all three orchestrators, once the interactive loop
\* has read a quit token (exit, quit, q) or has met end-of-input, it
\* eventually is left and prompts no more.
C30_QuitOrEndOfInputTerminates ==
    (interactive.event \in {"quit", "eof"})
    ~> [](interactive.pc \in {"exited", "raised"})

\* C31 (as claimed): in all three orchestrators an exception that escapes
\* query() in the interactive loop is reported and the loop reads the next
\* line: it does not end the loop.
C31_QueryFaultKeepsSession ==
    interactive.exc = "query" => interactive.pc = "except"

\* C35 (as claimed): a driver of an MCP orchestrator that has started
\* connecting has run disconnect_mcp_servers when it is left, on every
\* path: quit, end-of-input, an exception of a query, a failure of
\* connect_mcp_servers itself.
C35_DisconnectOnEveryExit ==
    (/\ variant \in {"remote", "proper"}
     /\ interactive.pc \in {"exited", "raised"})
    => interactive.disconnected

\* C32 (as claimed): under the default score threshold 0.0 retrieve filters
\* nothing: every neighbour the index returns (at most top_k) that is a
\* catalog tool is a hit, whatever its distance.
C32_DefaultThresholdFiltersNothing ==
    (RetrieveReturned /\ retr_call.score_threshold = 0)
    => HitNames(Hits) = {QueryResults[i].id : i \in 1..Len(QueryResults)} \cap SeqRange(Catalog)

\* C38: retrieve returns at most top_k hits, no tool name twice, in order
\* of non-increasing similarity_score (the index answers nearest first).
C38_AtMostTopKDistinctOrdered ==
    RetrieveReturned
    => (/\ Len(Hits) <= retr_call.top_k
        /\ \A i, j \in 1..Len(Hits) : Hits[i].name = Hits[j].name => i = j
        /\ \A i, j \in 1..Len(Hits) :
               i < j => Hits[i].similarity_score >= Hits[j].similarity_score)

C38_Witness ==
    /\ RetrieveReturned
    /\ retr_call.top_k = 2
    /\ retr_call.score_threshold = -200
    /\ Len(retr_call.index) = 3
    /\ Len(Hits) = 2
    /\ Hits[1].similarity_score > Hits[2].similarity_score


\* C36: whatever was passed and whatever the schema, the mapping that
\* _prepare_tool_arguments returns has every key among the declared
\* properties, or consists of exactly one key, the first required property;
\* the call always returns.
C36_KeysDeclaredOrFirstRequired ==
    /\ prep_call.pc \in {"called", "returned"}
    /\ PrepareReturned
       => \/ DictKeys(prep_call.payload) \subseteq SeqRange(prep_call.properties)
          \/ /\ Len(prep_call.payload) = 1
             /\ prep_call.required_props # <<>>
             /\ prep_call.payload[1].k = prep_call.required_props[1]

C36_Witness ==
    /\ PrepareReturned
    /\ prep_call.arguments = PyDict(<<[k |-> "x", v |-> PyInt("1")],
                                      [k |-> "y", v |-> PyInt("2")]>>)
    /\ prep_call.required_props = <<"nama_mahasiswa">>
    /\ prep_call.properties = <<"y">>
    /\ prep_call.payload = <<[k |-> "y", v |-> PyInt("2")]>>

\* C37 (as claimed): _prepare_tool_arguments is idempotent for a fixed
\* schema: normalising the returned mapping again, with the same required
\* list and the same properties, gives the same mapping.
C37_NormalizeIdempotent ==
    PrepareReturned
    => PrepareToolArguments(PyDict(prep_call.payload), prep_call.required_props,
                            prep_call.properties) = prep_call.payload


\* C33 (as claimed): no connection handle is lost from the registry of
\* RemoteMCPOrchestrator: whatever the configuration list and wherever a
\* connect step failed, every transport opened since the last disconnect is
\* held by transport_contexts and every session that listed its tools in
\* the current connect loop is held by session_contexts, so that the next
\* disconnect_mcp_servers, which closes what the two tables hold, closes it.
C33_NoHandleLost ==
    variant = "remote" =>
        /\ \A h \in genStart..(nextH - 1) :
               \E i \in 1..Len(transport_contexts) : transport_contexts[i].v = h
        /\ \A h \in SeqRange(listed) :
               \E i \in 1..Len(session_contexts) : session_contexts[i].v = h

\* C34 (as claimed): once a connect step has failed, no later query() of
\* RemoteMCPOrchestrator reaches its decision rounds with a partial registry:
\* when it decides, every tool of every configured service is registered.
C34_NoDecisionOnPartialRegistry ==
    \A q \in Tasks :
        (/\ variant = "remote"
         /\ anyFail
         /\ task[q].op = "query"
         /\ task[q].pc \in InLoop)
        => \A i \in 1..Len(server_configs) :
               \A n \in SeqRange(server_configs[i].tools) : DictHas(all_tools, n)

====
